---------------------------- MODULE Spec2Model ----------------------------
(***************************************************************************)
(* lazywm: the container tree, the layout engine and the focus state of    *)
(* a tiling window manager.                                                *)
(*                                                                         *)
(*   src/src/wm_state/container.rs   Container, Geometry, LayoutType       *)
(*   src/src/wm_state/workspace.rs   Workspace (focus is a raw pointer)    *)
(*   src/src/wm_state/mod.rs         WmState (workspace dispatch)          *)
(*   src/src/wm_model.rs             the frame-id based WmState the event  *)
(*                                   loop of src/src/wm.rs drives          *)
(*                                                                         *)
(* A Container is a record; its children are a sequence of Containers      *)
(* (Vec<Container>).  Option<T> is a sequence of length 0 or 1, and an     *)
(* Option<u32> handle is 0 for None.  Sequences are 1-based here, so the   *)
(* Rust index i is position i + 1.                                         *)
(*                                                                         *)
(* A raw pointer *mut Container is an address.  The root Container lives   *)
(* inside its Workspace (a HashMap value that is not moved once            *)
(* WmState::new has returned), so its address is the constant "root".  A   *)
(* child lives in a slot of its parent's Vec buffer, so its address is     *)
(* the pair (buffer, slot index).  A buffer is a heap allocation: it       *)
(* keeps its identity when the Vec that owns it is moved, and is replaced  *)
(* by a new one when a push outgrows the capacity.                         *)
(***************************************************************************)
EXTENDS Integers, Sequences, FiniteSets, TLC

(***************************************************************************)
(* Bounds of the model.                                                    *)
(***************************************************************************)
\* window handles are 1..NumWindows
NumWindows == 3
\* frame handles are 1..MaxFrames: at most MaxFrames containers are created
MaxFrames == 3
\* WmState::new(num_workspaces, width, height)
NumWorkspaces == 2
ScreenWidth == 1920
ScreenHeight == 1080
\* trees drawn for the Container-level specification have at most
\* MaxNodes containers below the root
MaxNodes == 3
\* containers created in the specification with change_workspace
MaxWsFrames == 2

\* key presses carry one of the keysyms 1..NumKeys
NumKeys == 2

\* smallest capacity a Vec<Container> allocates on its first push
MinNonZeroCap == 4

Windows == 1..NumWindows
Frames == 1..MaxFrames
WorkspaceIds == 0..(NumWorkspaces - 1)
Keys == 1..NumKeys
\* the keysym of the Escape key
EscapeKey == 1

VARIABLES
    workspaces,          \* WmState.workspaces: index -> Workspace
    current_workspace,   \* WmState.current_workspace
    window_frame_map,    \* WM.window_frame_map: client window -> frame (0: absent)
    destroyed,           \* backend: frame -> number of destroy_window requests
    nextFrame,           \* backend: the next id conn.generate_id() returns
    crashed,             \* "no", "panic" (unwrap on None), "ub" (wild pointer)
                         \* or "exit" (exit(0))
    config,              \* WM.config: the modes defined, the default key map
    last                 \* the operation that produced this state

vars == <<workspaces, current_workspace, window_frame_map, destroyed,
          nextFrame, crashed, config, last>>

---------------------------------------------------------------------------
(***************************************************************************)
(* Geometry and LayoutType                                                 *)
(***************************************************************************)
LayoutType == {"Horizontal", "Vertical", "Floating", "Tabbed"}

Geometry(x, y, width, height) ==
    [x |-> x, y |-> y, width |-> width, height |-> height]

\* a slip: the next child is not advanced
GetNextGeometryNoAdvance(layout_type, current_geometry, unit) ==
    Geometry(current_geometry.x, current_geometry.y,
             unit.width, current_geometry.height)

GetNextGeometry(layout_type, current_geometry, unit) ==
    CASE layout_type = "Horizontal" ->
           Geometry(current_geometry.x + unit.x, current_geometry.y,
                    unit.width, current_geometry.height)
      [] layout_type = "Vertical" ->
           Geometry(current_geometry.x, current_geometry.y + unit.y,
                    current_geometry.width, unit.height)
      [] layout_type = "Floating" ->
           Geometry(current_geometry.x, current_geometry.y,
                    current_geometry.width, current_geometry.height)
      [] layout_type = "Tabbed" ->
           Geometry(current_geometry.x, current_geometry.y,
                    current_geometry.width, current_geometry.height)

---------------------------------------------------------------------------
(***************************************************************************)
(* Pointers                                                                *)
(***************************************************************************)
NoPtr == [kind |-> "none", buf |-> 0, idx |-> 0]
RootPtr == [kind |-> "root", buf |-> 0, idx |-> 0]
\* the address of the local variable of Workspace::new, dead on return
StackPtr == [kind |-> "stack", buf |-> 0, idx |-> 0]
SlotPtr(buf, idx) == [kind |-> "slot", buf |-> buf, idx |-> idx]

---------------------------------------------------------------------------
(***************************************************************************)
(* Container                                                               *)
(***************************************************************************)
NewWithoutWindow(layout_type, geometry) ==
    [frame_win_id |-> 0, main_win_id |-> 0, children |-> <<>>,
     parent |-> NoPtr, layout_type |-> layout_type, geometry |-> geometry,
     is_repositioned |-> FALSE, remove_flag |-> FALSE,
     buf |-> 0, cap |-> 0]

NewContainer(frame_win_id, main_win_id, layout_type, geometry) ==
    [NewWithoutWindow(layout_type, geometry) EXCEPT
        !.frame_win_id = frame_win_id, !.main_win_id = main_win_id]

LiveChildren(c) == SelectSeq(c.children, LAMBDA k : ~k.remove_flag)

\* position(|c| c.main_win_id == Some(window_id)): first match, 0 for None
PositionOfWindow(children, window_id) ==
    IF \E i \in 1..Len(children) : children[i].main_win_id = window_id
    THEN CHOOSE i \in 1..Len(children) :
            /\ children[i].main_win_id = window_id
            /\ \A j \in 1..(i - 1) : children[j].main_win_id # window_id
    ELSE 0

\* a slip: the first child is placed one span after its previous place
FirstGeometryFromOld(c, live_children_count) ==
    LET old == c.children[1].geometry
        child_width == c.geometry.width \div live_children_count
    IN  Geometry(old.x + child_width, 0, child_width, c.geometry.height)

\* the geometry reposition gives the first live child
FirstGeometry(c, live_children_count) ==
    Geometry(0, 0, c.geometry.width \div live_children_count, c.geometry.height)

UnitGeometry(c, live_children_count) ==
    LET child_width == c.geometry.width \div live_children_count
        child_height == c.geometry.height \div live_children_count
    IN  Geometry(child_width, child_height, child_width, child_height)

RECURSIVE Reposition(_)
RECURSIVE RepositionFrom(_, _, _, _)

\* a slip: the filter on remove_flag is left out
RECURSIVE RepositionFromAll(_, _, _, _)
RepositionFromAll(children, layout_type, next_geometry, unit) ==
    IF children = <<>> THEN <<>>
    ELSE LET placed == Reposition([Head(children) EXCEPT !.geometry = next_geometry])
             c == [placed EXCEPT !.is_repositioned = TRUE]
         IN  <<c>> \o RepositionFromAll(Tail(children), layout_type,
                         GetNextGeometry(layout_type, c.geometry, unit), unit)

\* the for_each of reposition over the children, removed ones filtered out
RepositionFrom(children, layout_type, next_geometry, unit) ==
    IF children = <<>> THEN <<>>
    ELSE IF Head(children).remove_flag
    THEN <<Head(children)>>
            \o RepositionFrom(Tail(children), layout_type, next_geometry, unit)
    ELSE LET placed == Reposition([Head(children) EXCEPT !.geometry = next_geometry])
             c == [placed EXCEPT !.is_repositioned = TRUE]
         IN  <<c>> \o RepositionFrom(Tail(children), layout_type,
                         GetNextGeometry(layout_type, c.geometry, unit), unit)

Reposition(self) ==
    LET live_children_count == Len(LiveChildren(self))
    IN  IF live_children_count = 0 THEN self
        ELSE [self EXCEPT !.children =
                RepositionFrom(self.children, self.layout_type,
                               FirstGeometry(self, live_children_count),
                               UnitGeometry(self, live_children_count))]

\* Vec::push: the buffer is replaced when the capacity is exhausted
GrownCap(cap) == IF 2 * cap > MinNonZeroCap THEN 2 * cap ELSE MinNonZeroCap

\* a slip: the child is put in front of its siblings
AddChildFront(self, self_ptr, child, fresh_buf) ==
    Reposition([self EXCEPT
        !.children = <<[child EXCEPT !.parent = self_ptr]>> \o self.children])

\* Container::add_child; self_ptr is the address of self, fresh_buf the
\* buffer a reallocation would return
AddChild(self, self_ptr, child, fresh_buf) ==
    LET grow == Len(self.children) = self.cap
        pushed == [self EXCEPT
            !.children = Append(self.children, [child EXCEPT !.parent = self_ptr]),
            !.buf = IF grow THEN fresh_buf ELSE self.buf,
            !.cap = IF grow THEN GrownCap(self.cap) ELSE self.cap]
    IN  Reposition(pushed)

\* index (1-based) of the cyclic successor, 0 for None
GetNextFocusingContainer(self, window_id) ==
    LET window_index == PositionOfWindow(self.children, window_id)
    IN  IF window_index = 0 THEN 0
        ELSE IF Len(self.children) = 1 THEN 0
        ELSE (window_index % Len(self.children)) + 1

RECURSIVE CleanRemovedChildren(_)
RECURSIVE CleanEach(_)

CleanEach(children) ==
    IF children = <<>> THEN <<>>
    ELSE <<CleanRemovedChildren(Head(children))>> \o CleanEach(Tail(children))

\* a slip: the children are cleaned, the containers below them are not
CleanRemovedChildrenTopOnly(self) ==
    IF self.remove_flag THEN self
    ELSE [self EXCEPT !.children =
            SelectSeq(self.children, LAMBDA c : ~c.remove_flag)]

CleanRemovedChildren(self) ==
    IF self.remove_flag THEN self
    ELSE [self EXCEPT !.children =
            CleanEach(SelectSeq(self.children, LAMBDA c : ~c.remove_flag))]

UnmarkRemoved(self) == [self EXCEPT !.remove_flag = FALSE]

RECURSIVE GetRepositionedChildren(_)
RECURSIVE FlatMapRepositioned(_)

FlatMapRepositioned(children) ==
    IF children = <<>> THEN <<>>
    ELSE LET c == Head(children)
         IN  (IF c.children = <<>> THEN <<c>> ELSE GetRepositionedChildren(c))
                \o FlatMapRepositioned(Tail(children))

GetRepositionedChildren(self) ==
    FlatMapRepositioned(SelectSeq(self.children, LAMBDA c : c.is_repositioned))

RECURSIVE GetRemovedChildren(_)
RECURSIVE FlatMapRemoved(_)

FlatMapRemoved(children) ==
    IF children = <<>> THEN <<>>
    ELSE LET c == Head(children)
         IN  (IF c.remove_flag THEN <<c>> ELSE GetRemovedChildren(c))
                \o FlatMapRemoved(Tail(children))

GetRemovedChildren(self) ==
    FlatMapRemoved(SelectSeq(self.children, LAMBDA c : c.remove_flag))

\* a slip: the container that loses its only child is not marked
RemoveWindowChildOnly(self, window_id) ==
    LET index == PositionOfWindow(self.children, window_id)
        marked == [self EXCEPT !.children[index].remove_flag = TRUE]
    IN  IF index = 0 THEN self
        ELSE IF Len(self.children) - 1 = 0 THEN marked
        ELSE Reposition(marked)

\* Container::remove_window
RemoveWindow(self, window_id) ==
    LET index == PositionOfWindow(self.children, window_id)
        marked == [self EXCEPT !.children[index].remove_flag = TRUE]
    IN  IF index = 0 THEN self
        ELSE IF Len(self.children) - 1 = 0
        THEN [marked EXCEPT !.remove_flag = TRUE]
        ELSE Reposition(marked)

RECURSIVE FindChildByWindowId(_, _)
RECURSIVE FindInChildrenByWindowId(_, _)

FindInChildrenByWindowId(children, window_id) ==
    IF children = <<>> THEN <<>>
    ELSE LET found == FindChildByWindowId(Head(children), window_id)
         IN  IF found # <<>> /\ found[1].main_win_id = window_id THEN found
             ELSE FindInChildrenByWindowId(Tail(children), window_id)

FindChildByWindowId(self, window_id) ==
    IF self.main_win_id = window_id THEN <<self>>
    ELSE FindInChildrenByWindowId(self.children, window_id)

IsChild(self) == self.parent.kind # "none"

---------------------------------------------------------------------------
(***************************************************************************)
(* Addresses into a tree                                                   *)
(***************************************************************************)
RECURSIVE NodeAt(_, _)
NodeAt(root, path) ==
    IF path = <<>> THEN root ELSE NodeAt(root.children[Head(path)], Tail(path))

RECURSIVE ReplaceAt(_, _, _)
ReplaceAt(root, path, node) ==
    IF path = <<>> THEN node
    ELSE [root EXCEPT !.children[Head(path)] =
            ReplaceAt(root.children[Head(path)], Tail(path), node)]

\* every path of the tree, the root's empty path included
RECURSIVE PathsOf(_)
PathsOf(node) ==
    {<<>>} \cup UNION { { <<i>> \o p : p \in PathsOf(node.children[i]) } :
                        i \in 1..Len(node.children) }

RECURSIVE MaxBuf(_)
RECURSIVE MaxBufOfEach(_)
MaxBufOfEach(children) ==
    IF children = <<>> THEN 0
    ELSE LET a == MaxBuf(Head(children))
             b == MaxBufOfEach(Tail(children))
         IN  IF a > b THEN a ELSE b
MaxBuf(node) ==
    LET b == MaxBufOfEach(node.children)
    IN  IF node.buf > b THEN node.buf ELSE b

\* a buffer address no Vec of the tree uses
FreshBuf(root) == MaxBuf(root) + 1

\* Option<path> of the address ptr: the slot must lie in a buffer a Vec of
\* the tree owns now, below that Vec's length
AddrPath(root, ptr) ==
    IF ptr.kind = "root" THEN << <<>> >>
    ELSE IF ptr.kind # "slot" THEN <<>>
    ELSE LET owners == { p \in PathsOf(root) :
                            /\ NodeAt(root, p).buf = ptr.buf
                            /\ ptr.idx <= Len(NodeAt(root, p).children) }
         IN  IF owners = {} THEN <<>>
             ELSE << (CHOOSE p \in owners : TRUE) \o <<ptr.idx>> >>

\* Option<Container>: what a valid pointer designates; <<>> if it dangles
Deref(root, ptr) ==
    LET p == AddrPath(root, ptr)
    IN  IF p = <<>> THEN <<>> ELSE <<NodeAt(root, p[1])>>

---------------------------------------------------------------------------
(***************************************************************************)
(* Workspace (wm_state): focus is a raw pointer.  focus_target is a ghost  *)
(* field: the frame handle of the container the pointer was made from (0   *)
(* for a container without frame, such as the root).                       *)
(***************************************************************************)
Matches(c, key, id) ==
    IF key = "window" THEN c.main_win_id = id ELSE c.frame_win_id = id

RECURSIVE FindParentContainer(_, _, _)
RECURSIVE FindParentScan(_, _, _, _)

\* the loop of find_parent_container from child i on: Option<path>
FindParentScan(root, i, key, id) ==
    IF i > Len(root.children) THEN <<>>
    ELSE IF Matches(root.children[i], key, id) THEN << <<>> >>
    ELSE IF FindParentContainer(root.children[i], key, id) # <<>> THEN << <<i>> >>
    ELSE FindParentScan(root, i + 1, key, id)

\* a slip: the search answers the root when nothing matches
FindParentContainerOrRoot(root, key, id) ==
    IF FindParentScan(root, 1, key, id) = <<>> THEN << <<>> >>
    ELSE FindParentScan(root, 1, key, id)

FindParentContainer(root, key, id) == FindParentScan(root, 1, key, id)

NewWorkspace(width, height) ==
    [container |-> NewWithoutWindow("Horizontal", Geometry(0, 0, width, height)),
     current_focused_container |-> StackPtr,
     focus_target |-> 0,
     current_focused_frame_id |-> 0]

WildPtr == [kind |-> "wild", buf |-> 0, idx |-> 0]

\* a slip: the focused container itself is taken as the parent
InsertionParentsFocused(ws) ==
    LET d == Deref(ws.container, ws.current_focused_container)
    IN  IF d # <<>>
        THEN { ws.current_focused_container }
        ELSE { RootPtr, WildPtr }

\* the parent add_container inserts under.  Reading through a dangling
\* focus pointer is undefined: the bytes read as "no parent" or as the
\* stale parent of a child of the root (both give the root), or as
\* some wild address.
InsertionParents(ws) ==
    LET d == Deref(ws.container, ws.current_focused_container)
    IN  IF d # <<>>
        THEN { IF IsChild(d[1]) THEN d[1].parent ELSE RootPtr }
        ELSE { RootPtr, WildPtr }

\* Workspace::add_container under the parent address pp (valid)
AddContainerUnder(ws, pp, new_container) ==
    LET path == AddrPath(ws.container, pp)[1]
        added == AddChild(NodeAt(ws.container, path), pp, new_container,
                          FreshBuf(ws.container))
    IN  [ws EXCEPT
            !.container = ReplaceAt(ws.container, path, added),
            !.current_focused_container = SlotPtr(added.buf, Len(added.children)),
            !.focus_target = new_container.frame_win_id]

\* Workspace::remove_container
RemoveContainer(ws, window_id) ==
    LET pp == FindParentContainer(ws.container, "window", window_id)
    IN  IF pp = <<>> THEN ws
        ELSE
        LET parent_container == NodeAt(ws.container, pp[1])
            next == GetNextFocusingContainer(parent_container, window_id)
            focus == IF next # 0 THEN SlotPtr(parent_container.buf, next)
                     ELSE IF IsChild(parent_container) THEN parent_container.parent
                     ELSE RootPtr
            target == IF next # 0 THEN parent_container.children[next].frame_win_id
                      ELSE 0
        IN  [ws EXCEPT
                !.current_focused_container = focus,
                !.focus_target = target,
                !.container = ReplaceAt(ws.container, pp[1],
                                  RemoveWindow(parent_container, window_id))]

\* a slip: the root is not unmarked before the sweep
CleanRemovedContainersKeepMark(ws) ==
    [ws EXCEPT !.container = CleanRemovedChildren(ws.container)]

\* Workspace::clean_removed_containers
CleanRemovedContainers(ws) ==
    [ws EXCEPT !.container = CleanRemovedChildren(UnmarkRemoved(ws.container))]

\* Workspace::set_current_focused_container
SetCurrentFocusedContainer(ws, window_id) ==
    LET pp == FindParentContainer(ws.container, "window", window_id)
    IN  IF pp = <<>> THEN ws
        ELSE
        LET parent_container == NodeAt(ws.container, pp[1])
            i == PositionOfWindow(parent_container.children, window_id)
        IN  IF i = 0 THEN ws
            ELSE [ws EXCEPT
                    !.current_focused_container = SlotPtr(parent_container.buf, i),
                    !.focus_target = parent_container.children[i].frame_win_id]

WorkspaceReposition(ws) == [ws EXCEPT !.container = Reposition(ws.container)]

---------------------------------------------------------------------------
(***************************************************************************)
(* Workspace (wm_model): focus is an Option<FrameId>; Container has no     *)
(* parent field there, the other Container methods are the same text.      *)
(***************************************************************************)
ModelAddChild(self, child, fresh_buf) ==
    LET grow == Len(self.children) = self.cap
    IN  Reposition([self EXCEPT
            !.children = Append(self.children, child),
            !.buf = IF grow THEN fresh_buf ELSE self.buf,
            !.cap = IF grow THEN GrownCap(self.cap) ELSE self.cap])

\* Option<path> of the insertion parent of wm_model's add_container
ModelInsertionParent(ws) ==
    IF ws.current_focused_frame_id # 0
    THEN FindParentContainer(ws.container, "frame", ws.current_focused_frame_id)
    ELSE << <<>> >>

\* wm_model's add_container, once parent_container.unwrap() succeeded
ModelAddContainer(ws, new_container) ==
    LET path == ModelInsertionParent(ws)[1]
    IN  [ws EXCEPT
            !.current_focused_frame_id = new_container.frame_win_id,
            !.container = ReplaceAt(ws.container, path,
                ModelAddChild(NodeAt(ws.container, path), new_container,
                              FreshBuf(ws.container)))]

\* a slip: the focused frame id is left as it was
ModelRemoveContainerKeepFocus(ws, window_id) ==
    LET pp == FindParentContainer(ws.container, "window", window_id)
    IN  IF pp = <<>> THEN ws
        ELSE [ws EXCEPT
                !.container = ReplaceAt(ws.container, pp[1],
                    RemoveWindow(NodeAt(ws.container, pp[1]), window_id))]

\* wm_model's Workspace::remove_container
ModelRemoveContainer(ws, window_id) ==
    LET pp == FindParentContainer(ws.container, "window", window_id)
    IN  IF pp = <<>> THEN ws
        ELSE
        LET parent_container == NodeAt(ws.container, pp[1])
            next == GetNextFocusingContainer(parent_container, window_id)
        IN  [ws EXCEPT
                !.current_focused_frame_id =
                    IF next # 0 THEN parent_container.children[next].frame_win_id
                    ELSE 0,
                !.container = ReplaceAt(ws.container, pp[1],
                                  RemoveWindow(parent_container, window_id))]

---------------------------------------------------------------------------
(***************************************************************************)
(* WmState and the initial state                                           *)
(***************************************************************************)
Op(op, win) == [op |-> op, win |-> win, path |-> <<>>]
OpAt(op, win, path) == [op |-> op, win |-> win, path |-> path]

\* the commands WM::build_command_map registers (no custom commands)
CommandTable == {"quit", "focus_left", "focus_right", "terminal", "close_window"}

\* a key of a key map is bound to a handler name, or to none ("")
HandlerNames == CommandTable \cup {"nosuch", ""}

\* a configuration that defines the mode "default" and binds no key
DefaultConfig == [modes |-> {"default"}, key_maps |-> [k \in Keys |-> ""]]

\* the configurations load_config can return: modes is any map of mode
\* names, with or without "default"
Configs ==
    { [modes |-> {"default"}, key_maps |-> f] : f \in [Keys -> HandlerNames] }
        \cup { [modes |-> {"resize"}, key_maps |-> [k \in Keys |-> ""]] }

HasCurrent == current_workspace \in WorkspaceIds
Current == workspaces[current_workspace]

Init ==
    /\ workspaces = [i \in WorkspaceIds |-> NewWorkspace(ScreenWidth, ScreenHeight)]
    /\ current_workspace = 0
    /\ window_frame_map = [w \in Windows |-> 0]
    /\ destroyed = [f \in Frames |-> 0]
    /\ nextFrame = 1
    /\ crashed = "no"
    /\ config = DefaultConfig
    /\ last = Op("new", 0)

\* workspaces.get(&self.current_workspace).unwrap() on a missing key
Panic(op, win) ==
    /\ crashed' = "panic"
    /\ last' = Op(op, win)
    /\ UNCHANGED config
    /\ UNCHANGED <<workspaces, current_workspace, window_frame_map, destroyed,
                   nextFrame>>

\* WmState::new_container(client_win_id, frame_win_id)
NewContainerAct(w) ==
    /\ crashed = "no"
    /\ nextFrame <= MaxFrames
    /\ IF ~HasCurrent THEN Panic("new_container", w)
       ELSE \E pp \in InsertionParents(Current) :
            /\ last' = Op("new_container", w)
            /\ nextFrame' = nextFrame + 1
            /\ UNCHANGED config
            /\ UNCHANGED <<current_workspace, window_frame_map, destroyed>>
            /\ IF AddrPath(Current.container, pp) = <<>>
               THEN crashed' = "ub" /\ UNCHANGED workspaces
               ELSE /\ crashed' = "no"
                    /\ workspaces' = [workspaces EXCEPT ![current_workspace] =
                         AddContainerUnder(Current, pp,
                            NewContainer(nextFrame, w, "Horizontal",
                                         Geometry(0, 0, 0, 0)))]

\* a slip: the result is stored for every workspace
StepEveryWorkspace(op, win, ws) ==
    /\ last' = Op(op, win)
    /\ workspaces' = [k \in WorkspaceIds |-> ws]
    /\ UNCHANGED config
    /\ UNCHANGED <<current_workspace, window_frame_map, destroyed, nextFrame,
                   crashed>>

\* an operation that maps the active workspace to f(workspace)
Step(op, win, ws) ==
    /\ last' = Op(op, win)
    /\ workspaces' = [workspaces EXCEPT ![current_workspace] = ws]
    /\ UNCHANGED config
    /\ UNCHANGED <<current_workspace, window_frame_map, destroyed, nextFrame,
                   crashed>>

\* WmState::remove_container
RemoveContainerAct(w) ==
    /\ crashed = "no"
    /\ IF ~HasCurrent THEN Panic("remove_container", w)
       ELSE Step("remove_container", w, RemoveContainer(Current, w))

\* WmState::set_focusing_container
SetFocusingContainerAct(w) ==
    /\ crashed = "no"
    /\ IF ~HasCurrent THEN Panic("set_focusing_container", w)
       ELSE Step("set_focusing_container", w, SetCurrentFocusedContainer(Current, w))

\* WmState::reposition
RepositionAct ==
    /\ crashed = "no"
    /\ IF ~HasCurrent THEN Panic("reposition", 0)
       ELSE Step("reposition", 0, WorkspaceReposition(Current))

\* WmState::clean_removed_containers
CleanRemovedContainersAct ==
    /\ crashed = "no"
    /\ IF ~HasCurrent THEN Panic("clean_removed_containers", 0)
       ELSE Step("clean_removed_containers", 0, CleanRemovedContainers(Current))

\* a slip: the workspace entered has its focus put back on its root
ChangeWorkspaceResetFocus(i) ==
    /\ crashed = "no"
    /\ current_workspace' = i
    /\ last' = Op("change_workspace", i)
    /\ workspaces' = [k \in WorkspaceIds |->
                        IF k = i
                        THEN [workspaces[k] EXCEPT
                                !.current_focused_container = RootPtr]
                        ELSE workspaces[k]]
    /\ UNCHANGED config
    /\ UNCHANGED <<window_frame_map, destroyed, nextFrame, crashed>>

\* WmState::change_workspace: any usize is stored
ChangeWorkspaceAct(i) ==
    /\ crashed = "no"
    /\ current_workspace' = i
    /\ last' = Op("change_workspace", i)
    /\ UNCHANGED config
    /\ UNCHANGED <<workspaces, window_frame_map, destroyed, nextFrame, crashed>>

\* WmState::change_layout: the unwrap of the active workspace, then
\* Workspace::change_layout, whose body is todo!()
ChangeLayoutAct(layout_type) ==
    /\ crashed = "no"
    /\ crashed' = "panic"
    /\ last' = [op |-> "change_layout", win |-> 0, path |-> <<>>,
                layout_type |-> layout_type]
    /\ UNCHANGED config
    /\ UNCHANGED <<workspaces, current_workspace, window_frame_map, destroyed,
                   nextFrame>>

\* the operations of WmState on the active workspace
Next ==
    \/ \E w \in Windows : NewContainerAct(w)
    \/ \E w \in Windows : RemoveContainerAct(w)
    \/ \E w \in Windows : SetFocusingContainerAct(w)
    \/ RepositionAct
    \/ CleanRemovedContainersAct

Spec == Init /\ [][Next]_vars

\* the same with change_layout
NextLayout ==
    \/ Next
    \/ \E layout_type \in LayoutType : ChangeLayoutAct(layout_type)

SpecLayout == Init /\ [][NextLayout]_vars

\* the same with change_workspace, over fewer containers.  Window handles
\* are interchangeable, so they are brought in in order: the handle of an
\* operation is one of those used so far or the next one, which no
\* container holds yet.
NewContainerWsAct(w) ==
    w <= nextFrame /\ nextFrame <= MaxWsFrames /\ NewContainerAct(w)

RemoveContainerWsAct(w) == w <= nextFrame /\ RemoveContainerAct(w)

SetFocusingContainerWsAct(w) == w <= nextFrame /\ SetFocusingContainerAct(w)

NextWs ==
    \/ \E w \in Windows : NewContainerWsAct(w)
    \/ \E w \in Windows : RemoveContainerWsAct(w)
    \/ \E w \in Windows : SetFocusingContainerWsAct(w)
    \/ RepositionAct
    \/ CleanRemovedContainersAct
    \/ \E i \in 0..NumWorkspaces : ChangeWorkspaceAct(i)

SpecWs == Init /\ [][NextWs]_vars

---------------------------------------------------------------------------
(***************************************************************************)
(* The event loop of src/src/wm.rs, which drives wm_model's WmState.  One  *)
(* action is one iteration of WM::run: the handler of the event, then the  *)
(* drain of get_repositioned_containers, which reads and changes nothing   *)
(* of WmState.                                                             *)
(***************************************************************************)
\* the frames handle_unmap_notify destroys: one request per removed
\* container that has a frame
RECURSIVE DestroyAll(_, _)
DestroyAll(count, removed_containers) ==
    IF removed_containers = <<>> THEN count
    ELSE LET f == Head(removed_containers).frame_win_id
         IN  DestroyAll(IF f = 0 THEN count ELSE [count EXCEPT ![f] = @ + 1],
                        Tail(removed_containers))

\* WM::handle_map_request -> WM::frame(client_win, false)
HandleMapRequest(w) ==
    /\ crashed = "no"
    /\ nextFrame <= MaxFrames
    /\ last' = Op("map_request", w)
    /\ nextFrame' = nextFrame + 1
    /\ UNCHANGED config
    /\ UNCHANGED <<current_workspace, destroyed>>
    /\ IF ModelInsertionParent(Current) = <<>>
       THEN crashed' = "panic" /\ UNCHANGED <<workspaces, window_frame_map>>
       ELSE /\ workspaces' = [workspaces EXCEPT ![current_workspace] =
                 ModelAddContainer(Current,
                    NewContainer(nextFrame, w, "Horizontal", Geometry(0, 0, 0, 0)))]
            \* grab_keys(frame_win, "default"): expect("invalid mode")
            /\ IF "default" \in config.modes
               THEN /\ crashed' = "no"
                    /\ window_frame_map' = [window_frame_map EXCEPT ![w] = nextFrame]
               ELSE crashed' = "panic" /\ UNCHANGED window_frame_map

\* a slip: the window is removed whether it is in the map or not
HandleUnmapNotifyUnchecked(w) ==
    /\ crashed = "no"
    /\ last' = Op("unmap_notify", w)
    /\ UNCHANGED <<config, current_workspace, nextFrame, crashed>>
    /\ LET removed == ModelRemoveContainer(Current, w)
       IN  /\ window_frame_map' = [window_frame_map EXCEPT ![w] = 0]
           /\ destroyed' = DestroyAll(destroyed,
                               GetRemovedChildren(removed.container))
           /\ workspaces' = [workspaces EXCEPT ![current_workspace] =
                               CleanRemovedContainers(removed)]

\* WM::handle_unmap_notify
HandleUnmapNotify(w) ==
    /\ crashed = "no"
    /\ last' = Op("unmap_notify", w)
    /\ UNCHANGED config
    /\ UNCHANGED <<current_workspace, nextFrame, crashed>>
    /\ IF window_frame_map[w] = 0
       THEN UNCHANGED <<workspaces, window_frame_map, destroyed>>
       ELSE LET removed == ModelRemoveContainer(Current, w)
            IN  /\ window_frame_map' = [window_frame_map EXCEPT ![w] = 0]
                /\ destroyed' = DestroyAll(destroyed,
                                    GetRemovedChildren(removed.container))
                /\ workspaces' = [workspaces EXCEPT ![current_workspace] =
                                    CleanRemovedContainers(removed)]

NextLoop ==
    \/ \E w \in Windows : HandleMapRequest(w)
    \/ \E w \in Windows : HandleUnmapNotify(w)

SpecLoop == Init /\ [][NextLoop]_vars

\* The operations of wm_model's WmState that src/src/wm.rs calls, one at
\* a time and in any order (reposition, change_workspace,
\* move_window_to_left and move_window_to_right have no caller).
\* last.ordered records that so far every remove_container was followed
\* at once by clean_removed_containers, as in handle_unmap_notify.
ModelOp(op, win) ==
    [op |-> op, win |-> win, path |-> <<>>,
     ordered |-> last.ordered
                 /\ (last.op = "remove_container"
                        => op = "clean_removed_containers")]

InitModel ==
    /\ workspaces = [i \in WorkspaceIds |-> NewWorkspace(ScreenWidth, ScreenHeight)]
    /\ current_workspace = 0
    /\ window_frame_map = [w \in Windows |-> 0]
    /\ destroyed = [f \in Frames |-> 0]
    /\ nextFrame = 1
    /\ crashed = "no"
    /\ config = DefaultConfig
    /\ last = [op |-> "new", win |-> 0, path |-> <<>>, ordered |-> TRUE]

\* wm_model's WmState::new_container
ModelNewContainerAct(w) ==
    /\ crashed = "no"
    /\ nextFrame <= MaxFrames
    /\ last' = ModelOp("new_container", w)
    /\ nextFrame' = nextFrame + 1
    /\ UNCHANGED config
    /\ UNCHANGED <<current_workspace, window_frame_map, destroyed>>
    /\ IF ModelInsertionParent(Current) = <<>>
       THEN crashed' = "panic" /\ UNCHANGED workspaces
       ELSE /\ crashed' = "no"
            /\ workspaces' = [workspaces EXCEPT ![current_workspace] =
                 ModelAddContainer(Current,
                    NewContainer(nextFrame, w, "Horizontal", Geometry(0, 0, 0, 0)))]

ModelStep(op, win, ws) ==
    /\ last' = ModelOp(op, win)
    /\ workspaces' = [workspaces EXCEPT ![current_workspace] = ws]
    /\ UNCHANGED config
    /\ UNCHANGED <<current_workspace, window_frame_map, destroyed, nextFrame,
                   crashed>>

\* wm_model's WmState::remove_container
ModelRemoveContainerAct(w) ==
    /\ crashed = "no"
    /\ ModelStep("remove_container", w, ModelRemoveContainer(Current, w))

\* wm_model's WmState::clean_removed_containers
ModelCleanRemovedContainersAct ==
    /\ crashed = "no"
    /\ ModelStep("clean_removed_containers", 0, CleanRemovedContainers(Current))

NextModel ==
    \/ \E w \in Windows : ModelNewContainerAct(w)
    \/ \E w \in Windows : ModelRemoveContainerAct(w)
    \/ ModelCleanRemovedContainersAct

SpecModel == InitModel /\ [][NextModel]_vars

\* what running the handler of a command ends in: quit calls exit(0),
\* spawn panics when the program cannot be started, the focus commands
\* rotate WM.display_stack (which nothing fills) and close_window asks the
\* server to kill a client
HandlerOutcomes(handler_name) ==
    CASE handler_name = "quit" -> {"exit"}
      [] handler_name = "terminal" -> {"no", "panic"}
      [] OTHER -> {"no"}

\* WM::handle_key_press; modified is event.state != 0
HandleKeyPress(k, modified) ==
    /\ crashed = "no"
    /\ last' = [op |-> "key_press", win |-> k, path |-> <<>>,
                modified |-> modified]
    /\ UNCHANGED <<config, workspaces, current_workspace, window_frame_map,
                   destroyed, nextFrame>>
    /\ IF "default" \notin config.modes
       THEN crashed' = "panic"
       ELSE IF ~modified
       THEN crashed' = IF k = EscapeKey THEN "exit" ELSE "no"
       ELSE IF config.key_maps[k] \notin CommandTable
       THEN crashed' = "no"
       ELSE crashed' \in HandlerOutcomes(config.key_maps[k])

\* the loop under any configuration, with key presses
InitKeys ==
    /\ workspaces = [i \in WorkspaceIds |-> NewWorkspace(ScreenWidth, ScreenHeight)]
    /\ current_workspace = 0
    /\ window_frame_map = [w \in Windows |-> 0]
    /\ destroyed = [f \in Frames |-> 0]
    /\ nextFrame = 1
    /\ crashed = "no"
    /\ config \in Configs
    /\ last = Op("new", 0)

NextKeys ==
    \/ \E w \in Windows : HandleMapRequest(w)
    \/ \E w \in Windows : HandleUnmapNotify(w)
    \/ \E k \in Keys : \E modified \in BOOLEAN : HandleKeyPress(k, modified)

SpecKeys == InitKeys /\ [][NextKeys]_vars

---------------------------------------------------------------------------
(***************************************************************************)
(* Container methods on any tree.  The initial tree is any tree of at      *)
(* most MaxNodes containers below the root, of any depth: windows and      *)
(* groups, each group and the root with any layout, as add_child builds    *)
(* them (add_child ends with reposition, so the tree starts repositioned). *)
(* remove_flag is set by remove_window alone, so the flags arise from the  *)
(* actions.  Window and frame handles number the containers in             *)
(* depth-first order.                                                      *)
(***************************************************************************)
\* a shape is the sequence of the shapes of the children; <<>> below the
\* root is a window
RECURSIVE Size(_)
Size(shape) ==
    IF shape = <<>> THEN 0 ELSE 1 + Size(Head(shape)) + Size(Tail(shape))

RECURSIVE Shapes(_)
Shapes(budget) ==
    IF budget <= 0 THEN {<<>>}
    ELSE {<<>>} \cup UNION { { <<t>> \o s : s \in Shapes(budget - 1 - Size(t)) } :
                             t \in Shapes(budget - 1) }

RECURSIVE NodesBefore(_, _)
NodesBefore(shape, j) ==
    IF j <= 1 THEN 0 ELSE NodesBefore(shape, j - 1) + 1 + Size(shape[j - 1])

CapFor(len) ==
    IF len = 0 THEN 0
    ELSE IF len <= MinNonZeroCap THEN MinNonZeroCap ELSE 2 * MinNonZeroCap

\* the children of the container at address self_ptr, whose Vec buffer is
\* self_buf; first_id is the handle of the first of them
RECURSIVE BuildChildren(_, _, _, _, _)
BuildChildren(shape, first_id, self_ptr, self_buf, layouts) ==
    [j \in 1..Len(shape) |->
        LET id == first_id + NodesBefore(shape, j)
            zero == Geometry(0, 0, 0, 0)
        IN  IF shape[j] = <<>>
            THEN [NewContainer(id, id, "Horizontal", zero) EXCEPT
                    !.parent = self_ptr]
            ELSE [NewWithoutWindow(layouts[id], zero) EXCEPT
                    !.parent = self_ptr,
                    !.buf = id + 1,
                    !.cap = CapFor(Len(shape[j])),
                    !.children = BuildChildren(shape[j], id + 1,
                                               SlotPtr(self_buf, j), id + 1,
                                               layouts)]]

BuildTree(shape, layouts, root_layout, root_geometry) ==
    Reposition(
        [NewWithoutWindow(root_layout, root_geometry) EXCEPT
            !.buf = IF shape = <<>> THEN 0 ELSE 1,
            !.cap = CapFor(Len(shape)),
            !.children = BuildChildren(shape, 1, RootPtr, 1, layouts)])

\* the root of a drawn tree: a container away from the origin whose
\* extents leave a remainder when divided by 2, 3 or 4
RootGeometries == { Geometry(7, 5, 11, 7) }

InitTree ==
    /\ \E shape \in Shapes(MaxNodes) :
       \E layouts \in [1..Size(shape) -> LayoutType] :
       \E root_layout \in LayoutType :
       \E root_geometry \in RootGeometries :
          workspaces = [i \in WorkspaceIds |->
              IF i = 0
              THEN [NewWorkspace(ScreenWidth, ScreenHeight) EXCEPT
                      !.container = BuildTree(shape, layouts,
                                              root_layout, root_geometry),
                      !.current_focused_container = RootPtr]
              ELSE NewWorkspace(ScreenWidth, ScreenHeight)]
    /\ current_workspace = 0
    /\ window_frame_map = [w \in Windows |-> 0]
    /\ destroyed = [f \in Frames |-> 0]
    /\ nextFrame = 1
    /\ crashed = "no"
    /\ config = DefaultConfig
    /\ last = Op("new", 0)

Tree == workspaces[0].container

TreeStep(op, win, path, node) ==
    /\ last' = OpAt(op, win, path)
    /\ workspaces' = [workspaces EXCEPT ![0].container =
                        ReplaceAt(Tree, path, node)]
    /\ UNCHANGED config
    /\ UNCHANGED <<current_workspace, window_frame_map, destroyed, nextFrame,
                   crashed>>

\* Container::reposition on the container at path
ContainerReposition(path) ==
    TreeStep("reposition", 0, path, Reposition(NodeAt(Tree, path)))

\* Container::remove_window on the container at path
ContainerRemoveWindow(path, w) ==
    TreeStep("remove_window", w, path, RemoveWindow(NodeAt(Tree, path), w))

NextTree ==
    \/ \E path \in PathsOf(Tree) : ContainerReposition(path)
    \/ \E path \in PathsOf(Tree) : \E w \in 1..MaxNodes :
          ContainerRemoveWindow(path, w)

SpecTree == InitTree /\ [][NextTree]_vars

\* the operations of WmState on a drawn tree, with the Container methods
\* applied to any container of it
NextNested ==
    \/ \E w \in 1..MaxNodes : RemoveContainerAct(w)
    \/ \E w \in 1..MaxNodes : SetFocusingContainerAct(w)
    \/ RepositionAct
    \/ CleanRemovedContainersAct
    \/ \E path \in PathsOf(Tree) : ContainerReposition(path)
    \/ \E path \in PathsOf(Tree) : \E w \in 1..MaxNodes :
          ContainerRemoveWindow(path, w)

\* the drawn trees every group of which has the layout WmState gives its
\* containers
InitNested ==
    /\ InitTree
    /\ \A path \in PathsOf(Tree) : NodeAt(Tree, path).layout_type = "Horizontal"

SpecNested == InitNested /\ [][NextNested]_vars

---------------------------------------------------------------------------
(***************************************************************************)
(* Properties                                                              *)
(***************************************************************************)
Root == Current.container
Focus == Current.current_focused_container
\* Option<Container>: the container the focus pointer designates now
Focused == Deref(Root, Focus)

\* the container reposition last ran on (SpecTree)
Repositioned == NodeAt(Tree, last.path)

\* a container and everything reposition reaches from it: the descendants
\* below live children only
RECURSIVE Reached(_)
Reached(node) ==
    {node} \cup UNION { Reached(node.children[i]) :
                        i \in { j \in 1..Len(node.children) :
                                  ~node.children[j].remove_flag } }

RECURSIVE SumWidths(_)
SumWidths(cs) == IF cs = <<>> THEN 0 ELSE Head(cs).geometry.width + SumWidths(Tail(cs))

RECURSIVE SumHeights(_)
SumHeights(cs) == IF cs = <<>> THEN 0 ELSE Head(cs).geometry.height + SumHeights(Tail(cs))

DisjointX(a, b) ==
    \/ a.geometry.x + a.geometry.width <= b.geometry.x
    \/ b.geometry.x + b.geometry.width <= a.geometry.x

DisjointY(a, b) ==
    \/ a.geometry.y + a.geometry.height <= b.geometry.y
    \/ b.geometry.y + b.geometry.height <= a.geometry.y

HorizontalPartition(node) ==
    LET live == LiveChildren(node)
        n == Len(live)
        W == node.geometry.width
    IN  /\ \A i \in 1..n :
            /\ live[i].geometry.height = node.geometry.height
            /\ live[i].geometry.width = W \div n
        /\ \A i, j \in 1..n : i < j => DisjointX(live[i], live[j])
        /\ SumWidths(live) = W - (W % n)

VerticalPartition(node) ==
    LET live == LiveChildren(node)
        n == Len(live)
        H == node.geometry.height
    IN  /\ \A i \in 1..n :
            /\ live[i].geometry.width = node.geometry.width
            /\ live[i].geometry.height = H \div n
        /\ \A i, j \in 1..n : i < j => DisjointY(live[i], live[j])
        /\ SumHeights(live) = H - (H % n)

\* C5: after reposition(), every Horizontal container it reached that has
\* n >= 1 live children gives each live child the width floor(W/n) and its
\* own height, on pairwise disjoint x-intervals, the widths summing to W
\* less the remainder W mod n, which no child absorbs.
C5_HorizontalPartition ==
    last.op = "reposition" =>
        \A node \in Reached(Repositioned) :
            (node.layout_type = "Horizontal" /\ Len(LiveChildren(node)) >= 1)
                => HorizontalPartition(node)

C5_Witness ==
    /\ last.op = "reposition"
    /\ \E node \in Reached(Repositioned) :
        /\ node.layout_type = "Horizontal"
        /\ Len(LiveChildren(node)) >= 2
        /\ Len(node.children) > Len(LiveChildren(node))
        /\ node.geometry.width % Len(LiveChildren(node)) # 0
        /\ HorizontalPartition(node)

\* C6: after reposition(), every Vertical container it reached that has
\* n >= 1 live children gives each live child its own full width and the
\* height floor(H/n), on pairwise disjoint y-intervals, the heights
\* summing to H less the remainder.
C6_VerticalPartition ==
    last.op = "reposition" =>
        \A node \in Reached(Repositioned) :
            (node.layout_type = "Vertical" /\ Len(LiveChildren(node)) >= 1)
                => VerticalPartition(node)

\* C7: after reposition(), every live child of a Floating or Tabbed
\* container it reached has exactly the geometry of that container.
C7_FloatingTabbedStack ==
    last.op = "reposition" =>
        \A node \in Reached(Repositioned) :
            node.layout_type \in {"Floating", "Tabbed"} =>
                \A i \in 1..Len(node.children) :
                    ~node.children[i].remove_flag
                        => node.children[i].geometry = node.geometry

\* C8: a second reposition() right after the first changes no geometry
\* (nor anything else) of the container or of anything below it.
C8_RepositionIdempotent ==
    last.op = "reposition" => Reposition(Repositioned) = Repositioned

C8_Witness ==
    /\ last.op = "reposition"
    /\ \E i, j \in 1..Len(Repositioned.children) :
        /\ Repositioned.children[i].remove_flag
        /\ ~Repositioned.children[j].remove_flag
        /\ Repositioned.children[j].is_repositioned
        /\ Len(LiveChildren(Repositioned.children[j])) >= 1
        /\ Repositioned.children[j].children[1].geometry.width > 0

\* every container of a tree
AllNodes(root) == { NodeAt(root, p) : p \in PathsOf(root) }

FrameInTree(root, frame) ==
    \E node \in AllNodes(root) : node.frame_win_id = frame

\* the focus pointer was assigned by some operation (it is "defined")
FocusAssigned == Focus.kind # "stack"

\* C1: after each insert_window / remove_window, with or without
\* detach_removed in between, the focus reference (once assigned)
\* designates a container that is in the tree and is not marked
\* remove_flag.
C1_FocusLiveness ==
    (crashed = "no" /\ last.op \in {"new_container", "remove_container"}
        /\ FocusAssigned)
        => (Focused # <<>> /\ ~Focused[1].remove_flag)

\* C2: after detach_removed the focus reference (once assigned)
\* designates a container of the tree that is not marked, and when the
\* container it was set to is still in the tree it designates that very
\* container.
C2_FocusSurvivesDetach ==
    (crashed = "no" /\ last.op = "clean_removed_containers" /\ FocusAssigned)
        => /\ Focused # <<>>
           /\ ~Focused[1].remove_flag
           /\ FrameInTree(Root, Current.focus_target)
                => Focused[1].frame_win_id = Current.focus_target

MarkedWindows(root) ==
    { node.main_win_id : node \in { c \in AllNodes(root) :
                                      c.remove_flag /\ c.main_win_id # 0 } }

\* the marked container that holds window h (a child of the root here)
MarkedFor(root, h) ==
    CHOOSE c \in AllNodes(root) : c.remove_flag /\ c.main_win_id = h

\* C3: a container marked by remove_window(h) is returned by
\* collect_removed and by find_by_window_handle(h) in every state until
\* detach_removed; the detach_removed step leaves find_by_window_handle(h)
\* returning none (and so the container absent from the tree).
C3_TwoPhaseRemoval ==
    [][ crashed = "no" =>
          /\ \A h \in MarkedWindows(Root) :
                /\ \E i \in 1..Len(GetRemovedChildren(Root)) :
                      GetRemovedChildren(Root)[i] = MarkedFor(Root, h)
                /\ FindChildByWindowId(Root, h) = <<MarkedFor(Root, h)>>
          /\ last'.op = "clean_removed_containers" =>
                \A h \in MarkedWindows(Root) :
                    FindChildByWindowId(Current'.container, h) = <<>>
      ]_vars

\* C4: a processing step that removes a managed window has the container
\* of that window's frame returned by collect_removed (its frame is
\* destroyed in that step), and no frame is ever returned twice.
C4_RemovalObservedOnce ==
    [][ crashed = "no" =>
          /\ \A w \in Windows :
                (last'.op = "unmap_notify" /\ last'.win = w
                    /\ window_frame_map[w] # 0)
                    => destroyed'[window_frame_map[w]] = 1
          /\ \A f \in Frames : destroyed'[f] <= 1
      ]_vars

\* no container was removed so far: every container created is an
\* unmarked child of the root
NoRemovalYet ==
    /\ Len(Root.children) = nextFrame - 1
    /\ \A i \in 1..Len(Root.children) : ~Root.children[i].remove_flag

Front(seq) == SubSeq(seq, 1, Len(seq) - 1)

FramesOf(children) == [i \in 1..Len(children) |-> children[i].frame_win_id]

\* the path of the container add_container is to insert under, by the
\* shape of the tree: the parent of the focused container, the root when
\* the focus is the root or designates nothing
ExpectedParentPath ==
    LET fp == AddrPath(Root, Focus)
    IN  IF fp # <<>> /\ fp[1] # <<>> THEN Front(fp[1]) ELSE <<>>

RECURSIVE PathByWindowId(_, _, _)
RECURSIVE PathInChildren(_, _, _, _)
PathInChildren(node, i, path, h) ==
    IF i > Len(node.children) THEN <<>>
    ELSE LET found == PathByWindowId(node.children[i], path \o <<i>>, h)
         IN  IF found # <<>> THEN found
             ELSE PathInChildren(node, i + 1, path, h)

PathByWindowId(node, path, h) ==
    IF node.main_win_id = h THEN <<path>>
    ELSE PathInChildren(node, 1, path, h)

\* the container remove_window(h) is to focus, by the shape of the tree:
\* the cyclic successor among the siblings of h's container, or its
\* parent when it has no sibling
ExpectedFocusPath(root, h) ==
    LET p == PathByWindowId(root, <<>>, h)[1]
        pp == Front(p)
        k == Len(NodeAt(root, pp).children)
    IN  IF k >= 2 THEN pp \o <<(p[Len(p)] % k) + 1>> ELSE pp

\* C11: remove_window(h) for a handle in the tree leaves the focus
\* reference on the cyclic successor sibling of h's container when it has
\* a sibling, and on the parent of h's container (the root when that is
\* the parent) when it has none.
C11_RemoveFocusTarget ==
    [][ (crashed = "no" /\ last'.op = "remove_container"
            /\ PathByWindowId(Root, <<>>, last'.win) # <<>>)
          => AddrPath(Current'.container, Current'.current_focused_container)
               = <<ExpectedFocusPath(Root, last'.win)>>
      ]_vars

\* the live children of node fill it as its layout rules: side by side,
\* one above the other, or each over the whole of it
Tiles(node) ==
    CASE node.layout_type = "Horizontal" -> HorizontalPartition(node)
      [] node.layout_type = "Vertical" -> VerticalPartition(node)
      [] OTHER -> \A i \in 1..Len(node.children) :
                    ~node.children[i].remove_flag =>
                        /\ node.children[i].geometry.width = node.geometry.width
                        /\ node.children[i].geometry.height = node.geometry.height

\* C12: remove_window(h) on a node with at least two children marks the
\* container of h and nothing else, and repositions the node at once, so
\* that the live children left fill the node.
C12_RemoveRepositionsAtOnce ==
    [][ LET node == NodeAt(Tree, last'.path)
            after == NodeAt(workspaces'[0].container, last'.path)
            i == PositionOfWindow(node.children, last'.win)
        IN  (last'.op = "remove_window" /\ Len(node.children) >= 2 /\ i # 0)
              => /\ \A j \in 1..Len(node.children) :
                      after.children[j].remove_flag
                          = (j = i \/ node.children[j].remove_flag)
                 /\ after.remove_flag = node.remove_flag
                 /\ Len(LiveChildren(after)) >= 1 => Tiles(after)
      ]_vars

\* the paths above path, the root first
Ancestors(path) == { SubSeq(path, 1, n) : n \in 0..(Len(path) - 1) }

\* C13: Container::remove_window(h) on a node whose only child holds h
\* marks that child and the node itself, and changes the flag of no
\* container above the node, even when the node is the only child of its
\* parent.
C13_CascadeOneLevel ==
    [][ LET node == NodeAt(Tree, last'.path)
            after == NodeAt(workspaces'[0].container, last'.path)
        IN  (last'.op = "remove_window" /\ Len(node.children) = 1
                /\ node.children[1].main_win_id = last'.win)
              => /\ after.children[1].remove_flag
                 /\ after.remove_flag
                 /\ \A q \in Ancestors(last'.path) :
                      NodeAt(workspaces'[0].container, q).remove_flag
                          = NodeAt(Tree, q).remove_flag
      ]_vars

C13_Witness ==
    /\ last.op = "remove_window"
    /\ last.path # <<>>
    /\ LET node == NodeAt(Tree, last.path)
           parent == NodeAt(Tree, Front(last.path))
       IN  /\ Len(node.children) = 1
           /\ node.children[1].main_win_id = last.win
           /\ node.children[1].remove_flag
           /\ node.remove_flag
           /\ Len(parent.children) = 1
           /\ ~parent.remove_flag

\* the index reached from child i by n steps of next_focus_sibling, each
\* asked with the window handle of the child it starts from (0: none)
RECURSIVE FollowNext(_, _, _)
FollowNext(node, i, n) ==
    IF n = 0 \/ i = 0 THEN i
    ELSE FollowNext(node,
            GetNextFocusingContainer(node, node.children[i].main_win_id), n - 1)

\* C14: in a node with k >= 2 children next_focus_sibling of the child at
\* index i (0-based) is the child at index (i + 1) mod k, and k steps
\* lead back to the child they started from; in a node with one child it
\* is none.
C14_CyclicNavigation ==
    crashed = "no" =>
        \A node \in AllNodes(Root) :
            LET k == Len(node.children)
            IN  \A i \in 1..k :
                    node.children[i].main_win_id # 0 =>
                        /\ FollowNext(node, i, 1) = (IF k = 1 THEN 0 ELSE (i % k) + 1)
                        /\ k >= 2 => FollowNext(node, i, k) = i

\* no container of the tree holds window h
Absent(root, h) == \A node \in AllNodes(root) : node.main_win_id # h

\* C15: remove_window(h), set_focus(h) and mark_window_removed(h) with a
\* handle no container of the tree holds leave the tree (shape,
\* geometries, flags) and the focus reference as they were, and do not
\* crash.
C15_NotFoundIsNoOp ==
    [][ (crashed = "no" /\ Absent(Root, last'.win)
            /\ last'.op \in {"remove_container", "set_focusing_container",
                             "remove_window"})
          => (workspaces' = workspaces /\ crashed' = "no")
      ]_vars

C15_Witness ==
    /\ crashed = "no"
    /\ last.op \in {"remove_container", "set_focusing_container", "remove_window"}
    /\ Absent(Root, last.win)
    /\ Focus.kind = "slot"
    /\ \E node \in AllNodes(Root) : node.remove_flag

\* C16: collect_removed at the root returns every container below the
\* root that is marked remove_flag, whatever its depth.
C16_CollectRemovedAllDepths ==
    crashed = "no" =>
        \A path \in PathsOf(Root) :
            (path # <<>> /\ NodeAt(Root, path).remove_flag)
                => \E i \in 1..Len(GetRemovedChildren(Root)) :
                      GetRemovedChildren(Root)[i] = NodeAt(Root, path)

\* the containers below a node, each with its frame handle (0 for a
\* group) and the containers below it, in order
RECURSIVE Skeleton(_)
Skeleton(children) ==
    IF children = <<>> THEN <<>>
    ELSE << <<Head(children).frame_win_id, Skeleton(Head(children).children)>> >>
            \o Skeleton(Tail(children))

\* the same without the marked containers and what is below them
RECURSIVE SurvivingSkeleton(_)
SurvivingSkeleton(children) ==
    IF children = <<>> THEN <<>>
    ELSE IF Head(children).remove_flag THEN SurvivingSkeleton(Tail(children))
    ELSE << <<Head(children).frame_win_id,
              SurvivingSkeleton(Head(children).children)>> >>
            \o SurvivingSkeleton(Tail(children))

\* C17: after detach_removed no container of the tree is marked, the root
\* is kept, the marked containers are gone with everything below them,
\* and the other containers are where they were, in their order.
C17_DetachRemoved ==
    [][ (crashed = "no" /\ last'.op = "clean_removed_containers") =>
          LET root == Current'.container
          IN  /\ \A node \in AllNodes(root) : ~node.remove_flag
              /\ root.main_win_id = 0 /\ root.parent = NoPtr
              /\ Skeleton(root.children) = SurvivingSkeleton(Root.children)
      ]_vars

C17_Witness ==
    /\ crashed = "no"
    /\ last.op = "clean_removed_containers"
    /\ \E node \in AllNodes(Root) : node.frame_win_id = MaxNodes
    /\ Cardinality(PathsOf(Root)) = MaxNodes
    /\ \E path \in PathsOf(Root) : Len(path) = 2

\* the leaves below a node that are marked is_repositioned, depth-first
RECURSIVE RepositionedLeaves(_)
RepositionedLeaves(children) ==
    IF children = <<>> THEN <<>>
    ELSE LET c == Head(children)
         IN  (IF c.children # <<>> THEN RepositionedLeaves(c.children)
              ELSE IF c.is_repositioned THEN <<c>> ELSE <<>>)
                \o RepositionedLeaves(Tail(children))

\* C18: collect_repositioned_leaves returns the leaves of the tree that
\* are marked is_repositioned, each once, depth-first, and every
\* container it returns has a frame handle (is the container of a
\* window, not a group).
C18_CollectRepositionedLeaves ==
    crashed = "no" =>
        LET got == GetRepositionedChildren(Root)
        IN  /\ got = RepositionedLeaves(Root.children)
            /\ \A i \in 1..Len(got) : got[i].frame_win_id # 0

\* the node that holds the focused container: its parent, the root when
\* nothing is focused
FocusHolder(ws) ==
    LET p == AddrPath(ws.container, ws.current_focused_container)
    IN  IF p = <<>> \/ p[1] = <<>> THEN <<>> ELSE SubSeq(p[1], 1, Len(p[1]) - 1)

\* C19: change_layout(new_layout) completes, gives the node that holds the
\* focused container the layout new_layout, and leaves its live children
\* filling it as new_layout rules.
C19_ChangeLayout ==
    [][ (crashed = "no" /\ last'.op = "change_layout" /\ HasCurrent) =>
            /\ crashed' = "no"
            /\ LET node == NodeAt(Current'.container, FocusHolder(Current))
               IN  /\ node.layout_type = last'.layout_type
                   /\ Len(LiveChildren(node)) >= 1 => Tiles(node)
      ]_vars

\* C20: set_focusing_container(h) for a handle held by a container at any
\* depth of the tree leaves the focus reference on a container whose window
\* handle is h, and leaves the tree as it was.
C20_SetFocusAnyDepth ==
    [][ (crashed = "no" /\ last'.op = "set_focusing_container"
            /\ PathByWindowId(Root, <<>>, last'.win) # <<>>)
          => /\ Current'.container = Root
             /\ LET c == Deref(Current'.container,
                               Current'.current_focused_container)
                IN  c # <<>> /\ c[1].main_win_id = last'.win
      ]_vars

\* C21: change_workspace(index) changes the active index and nothing else:
\* the tree (shape, geometries, flags) and the focus reference of every
\* workspace are after the call what they were before it.
C21_SwitchKeepsWorkspaces ==
    [][ (crashed = "no" /\ last'.op = "change_workspace") =>
            /\ current_workspace' = last'.win
            /\ \A k \in WorkspaceIds : workspaces'[k] = workspaces[k]
            /\ crashed' = "no"
      ]_vars

C21_Witness ==
    /\ crashed = "no"
    /\ last.op = "change_workspace"
    /\ current_workspace = 1
    /\ Len(workspaces[0].container.children) = 2
    /\ workspaces[0].current_focused_container.kind = "slot"
    /\ Len(workspaces[1].container.children) = 0

\* the frame handles of the containers of a tree
RECURSIVE FramesBelow(_)
FramesBelow(children) ==
    IF children = <<>> THEN {}
    ELSE {Head(children).frame_win_id} \cup FramesBelow(Head(children).children)
            \cup FramesBelow(Tail(children))

FramesIn(root) == FramesBelow(root.children) \ {0}

FramesOfSeq(containers) ==
    { containers[i].frame_win_id : i \in 1..Len(containers) } \ {0}

\* the frame handles the queries of WmState answer with now
Reported ==
    FramesOfSeq(GetRepositionedChildren(Root))
        \cup FramesOfSeq(GetRemovedChildren(Root))
        \cup UNION { FramesOfSeq(FindChildByWindowId(Root, w)) : w \in Windows }

\* C22: a tree operation of WmState changes the active workspace only:
\* the tree, the flags and the focus of every other workspace stay as they
\* were; no container is in two workspaces, and what the queries find or
\* report is no container of a workspace that is not the active one.
C22_WorkspaceIsolation ==
    /\ [][ (crashed = "no" /\ crashed' = "no" /\ HasCurrent
                /\ last'.op # "change_workspace") =>
              \A k \in WorkspaceIds :
                  k # current_workspace => workspaces'[k] = workspaces[k]
         ]_vars
    /\ [](crashed = "no" /\ HasCurrent =>
            LET frames == [k \in WorkspaceIds |->
                             FramesIn(workspaces[k].container)]
            IN  /\ \A j, k \in WorkspaceIds :
                      j # k => frames[j] \cap frames[k] = {}
                /\ \A k \in WorkspaceIds :
                      k # current_workspace => Reported \cap frames[k] = {})

C22_Witness ==
    /\ crashed = "no"
    /\ last.op = "remove_container"
    /\ current_workspace = 1
    /\ \E c \in AllNodes(workspaces[0].container) :
          c.main_win_id = last.win /\ ~c.remove_flag
    /\ \E c \in AllNodes(workspaces[1].container) :
          c.main_win_id = last.win /\ c.remove_flag

\* C23: the root of every workspace holds no window and no frame and has
\* no parent reference; no operation replaces it (its geometry and layout
\* stay); detach_removed keeps it, with the unmarked containers below it,
\* and leaves it unmarked, also when the removal of its last window had
\* marked it.
C23_RootInvariant ==
    /\ [](crashed = "no" =>
            /\ \A k \in WorkspaceIds :
                  LET root == workspaces[k].container
                  IN  /\ root.main_win_id = 0
                      /\ root.frame_win_id = 0
                      /\ root.parent = NoPtr
            /\ last.op = "clean_removed_containers" => ~Root.remove_flag)
    /\ [][ (crashed = "no" /\ crashed' = "no") =>
              /\ \A k \in WorkspaceIds :
                    /\ workspaces'[k].container.geometry
                          = workspaces[k].container.geometry
                    /\ workspaces'[k].container.layout_type
                          = workspaces[k].container.layout_type
              /\ last'.op = "clean_removed_containers" =>
                    Skeleton(Current'.container.children)
                        = SurvivingSkeleton(Root.children)
         ]_vars

C23_Witness ==
    /\ crashed = "no"
    /\ last.op = "clean_removed_containers"
    /\ nextFrame = 2
    /\ Root.children = <<>>
    /\ ~Root.remove_flag

\* C24: the parent reference of every container below the root designates
\* the container whose children hold it now, and the root has no parent
\* reference.
C24_ParentLinkage ==
    crashed = "no" =>
        /\ Root.parent = NoPtr
        /\ \A path \in PathsOf(Root) :
              path # <<>> =>
                 AddrPath(Root, NodeAt(Root, path).parent) = <<Front(path)>>

\* C25: a leaf that collect_repositioned_leaves reported after one
\* operation is not reported again after a later operation that
\* repositions nothing: set_focus, or remove_window of a handle that is
\* not in the tree.
C25_RepositionedTransient ==
    [][ (crashed = "no"
            /\ \/ last'.op = "set_focusing_container"
               \/ last'.op = "remove_container" /\ Absent(Root, last'.win))
          => FramesOfSeq(GetRepositionedChildren(Current'.container))
                \cap FramesOfSeq(GetRepositionedChildren(Root)) = {}
      ]_vars

\* C26: in every state an insert_window, a remove_window or a
\* detach_removed has just produced, every container reached from the
\* root through live children that has n >= 1 live children has them
\* filling it as its layout rules.
C26_TilesAtDrain ==
    (crashed = "no"
        /\ last.op \in {"new_container", "remove_container",
                        "clean_removed_containers"})
      => \A node \in Reached(Root) :
            Len(LiveChildren(node)) >= 1 => Tiles(node)

\* the rectangle of inner lies in the rectangle of outer
Inside(inner, outer) ==
    /\ outer.x <= inner.x
    /\ outer.y <= inner.y
    /\ inner.x + inner.width <= outer.x + outer.width
    /\ inner.y + inner.height <= outer.y + outer.height

\* C27: after reposition(), in every container it reached that has live
\* children, the first live child is at the container's own origin and
\* the rectangle of every live child lies in the container's rectangle.
C27_ChildrenAtOrigin ==
    last.op = "reposition" =>
        \A node \in Reached(Repositioned) :
            LET live == LiveChildren(node)
            IN  Len(live) >= 1 =>
                    /\ live[1].geometry.x = node.geometry.x
                    /\ live[1].geometry.y = node.geometry.y
                    /\ \A i \in 1..Len(live) :
                          Inside(live[i].geometry, node.geometry)

\* C28: remove_window(h) for a handle held by a container at any depth
\* runs mark_window_removed on the direct parent of that container, and
\* the container is marked remove_flag afterwards.
C28_RemoveFindsParent ==
    [][ (crashed = "no" /\ last'.op = "remove_container"
            /\ PathByWindowId(Root, <<>>, last'.win) # <<>>)
          => LET p == PathByWindowId(Root, <<>>, last'.win)[1]
             IN  /\ FindParentContainer(Root, "window", last'.win) = <<Front(p)>>
                 /\ NodeAt(Current'.container, p).remove_flag
      ]_vars

\* the key press refers to something the configuration or the command
\* table does not define: the mode "default", or the command its binding
\* names
UnknownCommandOrMode(k, modified) ==
    \/ "default" \notin config.modes
    \/ modified /\ config.key_maps[k] \notin CommandTable \cup {""}

\* C29: a key press whose binding names a command that is not in the
\* command table, or that is handled while the configuration does not
\* define the mode, is dropped: nothing of WmState or of the window map
\* changes and the loop goes on (no panic, no exit).
C29_UnknownIsDropped ==
    [][ (crashed = "no" /\ last'.op = "key_press"
            /\ UnknownCommandOrMode(last'.win, last'.modified))
          => /\ crashed' = "no"
             /\ workspaces' = workspaces
             /\ window_frame_map' = window_frame_map
             /\ destroyed' = destroyed
      ]_vars

\* C30: an unmap event for a window that is not in the window-to-frame
\* map (never mapped, or unmapped already) changes neither the map nor
\* WmState, destroys no frame, and the loop goes on.
C30_StaleUnmapIgnored ==
    [][ (crashed = "no" /\ last'.op = "unmap_notify"
            /\ window_frame_map[last'.win] = 0)
          => /\ workspaces' = workspaces
             /\ window_frame_map' = window_frame_map
             /\ destroyed' = destroyed
             /\ crashed' = "no"
      ]_vars

C30_Witness ==
    /\ crashed = "no"
    /\ last.op = "unmap_notify"
    /\ window_frame_map[last.win] = 0
    /\ \A f \in Frames : destroyed[f] = 0
    /\ \E w \in Windows : window_frame_map[w] # 0
    /\ Len(Root.children) >= 1
    /\ Absent(Root, last.win)

\* C31: the active workspace index is always a key of the workspaces map,
\* and no operation panics for want of its active workspace.
C31_ActiveWorkspaceExists ==
    /\ current_workspace \in DOMAIN workspaces
    /\ crashed # "panic"

\* C32: with the operations of WmState alone every tree stays flat: a
\* container bound to a window is a direct child of the root of its
\* workspace, a window container has no children, and every container's
\* layout is Horizontal.
C32_FlatTree ==
    \A k \in WorkspaceIds :
        LET root == workspaces[k].container
        IN  \A path \in PathsOf(root) :
                LET node == NodeAt(root, path)
                IN  /\ node.layout_type = "Horizontal"
                    /\ node.main_win_id # 0 =>
                          /\ Len(path) = 1
                          /\ node.children = <<>>

C32_Witness ==
    /\ crashed = "no"
    /\ last.op = "new_container"
    /\ current_workspace = 1
    /\ Len(workspaces[0].container.children) = 1
    /\ Len(workspaces[1].container.children) = 1
    /\ workspaces[1].container.children[1].main_win_id # 0

\* C33: no two containers of one tree hold the same window handle, also
\* after an insert of a handle the tree already holds.
C33_UniqueHandles ==
    \A k \in WorkspaceIds :
        LET root == workspaces[k].container
        IN  \A p, q \in PathsOf(root) :
                (/\ NodeAt(root, p).main_win_id # 0
                 /\ NodeAt(root, p).main_win_id = NodeAt(root, q).main_win_id)
                    => p = q

\* C34: a container that has children, all of them marked for removal,
\* is marked for removal itself.
C34_NoLiveChildrenIsMarked ==
    \A k \in WorkspaceIds :
        \A node \in AllNodes(workspaces[k].container) :
            (node.children # <<>> /\ LiveChildren(node) = <<>>)
                => node.remove_flag

\* C35: collect_repositioned_leaves returns no container that is marked
\* for removal.
C35_CollectSkipsRemoved ==
    \A k \in WorkspaceIds :
        LET got == GetRepositionedChildren(workspaces[k].container)
        IN  \A i \in 1..Len(got) : ~got[i].remove_flag

\* C36: set_focus(h), when every container that holds h is marked for
\* removal and not yet detached, leaves the focus reference as it was.
C36_NoFocusOnRemoved ==
    [][ (/\ crashed = "no"
         /\ last'.op = "set_focusing_container"
         /\ \E node \in AllNodes(Root) : node.main_win_id = last'.win
         /\ \A node \in AllNodes(Root) :
               node.main_win_id = last'.win => node.remove_flag)
          => Current'.current_focused_container
                = Current.current_focused_container
      ]_vars

\* before and after differ at most in the geometry and the is_repositioned
\* flag of the containers reached through unmarked containers only
RECURSIVE OnlyPlaced(_, _, _)
OnlyPlaced(before, after, live) ==
    IF ~live THEN after = before
    ELSE /\ [after EXCEPT !.geometry = before.geometry,
                          !.is_repositioned = before.is_repositioned,
                          !.children = before.children] = before
         /\ Len(after.children) = Len(before.children)
         /\ \A i \in 1..Len(before.children) :
               OnlyPlaced(before.children[i], after.children[i],
                          ~before.children[i].remove_flag)

\* C37: reposition() on a container changes nothing but the geometry and
\* the is_repositioned flag of its live descendants: the shape of the
\* tree, the order of the children, the handles, the layouts, the
\* remove flags, the focus reference, the container's own geometry and
\* flag, and every marked child with all below it, stay as they were.
C37_RepositionFrame ==
    [][ last'.op = "reposition" =>
          LET before == NodeAt(Tree, last'.path)
              after == NodeAt(Tree', last'.path)
          IN  /\ after.geometry = before.geometry
              /\ after.is_repositioned = before.is_repositioned
              /\ OnlyPlaced(before, after, TRUE)
              /\ ReplaceAt(Tree', last'.path, before) = Tree
              /\ \A k \in WorkspaceIds :
                    /\ workspaces'[k].current_focused_container
                          = workspaces[k].current_focused_container
                    /\ k # 0 => workspaces'[k] = workspaces[k]
      ]_vars

C37_Witness ==
    /\ last.op = "reposition"
    /\ \E i, j \in 1..Len(Repositioned.children) :
          /\ Repositioned.children[i].remove_flag
          /\ Repositioned.children[i].children # <<>>
          /\ ~Repositioned.children[j].remove_flag
          /\ Repositioned.children[j].is_repositioned
          /\ Repositioned.children[j].geometry.width
                = Repositioned.geometry.width

\* the focused frame id of wm_model names no container
FocusedFrameAbsent == Current.current_focused_frame_id = 0

\* the focused frame id names a container of the tree
FocusedFrameInTree == FrameInTree(Root, Current.current_focused_frame_id)

\* C38: in wm_model, as long as every remove_container was followed at
\* once by clean_removed_containers, the focused frame id is absent or
\* is the frame id of a container in the tree, and new_container finds
\* its insertion parent (no panic).
C38_FocusedFrameValid ==
    last.ordered =>
        /\ crashed # "panic"
        /\ FocusedFrameAbsent \/ FocusedFrameInTree

C38_Witness ==
    /\ last.ordered
    /\ crashed = "no"
    /\ last.op = "new_container"
    /\ \E f \in Frames :
          f < nextFrame - 1 /\ f # 0 /\ ~FrameInTree(Root, f)
    /\ Len(Root.children) >= 2
    /\ FocusedFrameInTree

\* C38, second half: without that order the focused frame id can name a
\* container that was detached.  The states this describes are reachable
\* under SpecModel.
FocusedFrameDetached ==
    /\ ~last.ordered
    /\ ~FocusedFrameAbsent
    /\ ~FocusedFrameInTree

=========================================================================
